---- MODULE Spec2Model ----
(***************************************************************************)
(* Geocoding enrichment pipeline of create-csv-database.js: the row loop   *)
(* of main, the strategy ladder of geocodeWithFallback, the retrying       *)
(* transport nominatimFetch, candidate selection, confidence tagging, the  *)
(* resume index and the two append-only CSV streams.                       *)
(*                                                                         *)
(* Time is kept as the two differences the run depends on (elapsed time    *)
(* since lastCallAt and since the start of the previous outbound request), *)
(* each saturated at ONE_SECOND_MS, the only value they are compared to.   *)
(***************************************************************************)
EXTENDS Integers, Sequences, FiniteSets, TLC

VARIABLES
    scenario,   \* what the environment does in this behaviour (see Scenarios)
    rows,       \* the filtered, sliced input rows (main, `rows`)
    run,        \* number of the process run
    pc,         \* position of main: init, row, ready, inflight, backoff, done, killed, aborted
    i,          \* 1-based index of the row of the for loop
    strat,      \* strategy of the ladder being tried (1..8)
    attempt,    \* nominatimFetch's attempt parameter
    backoff,    \* ms of the retry sleep in progress (0 when none)
    r,          \* last result returned by nominatimFetch
    doneKeys,   \* resume keys read from the output file at startup
    outFile,    \* records on disk in OUTPUT_CSV
    missFile,   \* records on disk in misses.csv
    outBuf,     \* records written to the full-results stream, not yet on disk
    missBuf,    \* records written to the misses stream, not yet on disk
    outExists,  \* OUTPUT_CSV exists
    missExists, \* misses.csv exists
    processed, skipped, errors,   \* counters of main
    sinceCall,  \* Date.now() - lastCallAt, saturated
    sinceReq,   \* time since the start of the previous outbound request, saturated
    gap,        \* sinceReq as it was when the latest outbound request started
    nreq,       \* outbound requests issued for the current query (strategy)
    queried,    \* indices of rows for which this run issued a request
    appended,   \* per row index: records this run wrote to the full-results stream
    missed,     \* per row index: records this run wrote to the misses stream
    startLen,   \* number of records in OUTPUT_CSV when this run started
    abortCause, \* why the run aborted ("" while it has not)
    caught,     \* message of the exception the catch block of main caught last (NoError: none)
    lastFail,   \* the latest failed attempt of the query in progress (NoFail: none yet)
    asked,      \* per row index: the strategies this run queried for the row, in order
    calls,      \* outbound HTTP calls started and not yet returned or thrown
    outHeader,  \* where the header line of OUTPUT_CSV is: "none", "buffered" (written to the
                \* stream, not yet on disk) or "disk"
    outHdrDue,  \* the stringifier of OUTPUT_CSV has a header line still to write
    missHdrDue, \* the stringifier of misses.csv has a header line still to write
    outHeaders, \* header lines the runs have written to the stream of OUTPUT_CSV
    missHeaders, \* header lines the runs have written to the stream of misses.csv
    csvData,    \* the records the lookup service reads from its copy of the output file
    request,    \* the query of the latest GET /location/coordinates (NoRequest: none)
    response,   \* the response to it
    json        \* the array res.json() gave in the step just taken (NoJson: the step read none)

vars == <<scenario, rows, run, pc, i, strat, attempt, backoff, r, doneKeys, outFile, missFile,
          outBuf, missBuf, outExists, missExists, processed, skipped, errors,
          sinceCall, sinceReq, gap, nreq, queried, appended, missed,
          startLen, abortCause, caught, lastFail, asked, calls,
          outHeader, outHdrDue, missHdrDue, outHeaders, missHeaders, csvData, request, response,
          json>>

(* ---------------- program constants ---------------- *)
ONE_SECOND_MS == 1000
MAX_RETRIES == 5
NumStrategies == 8

(* ---------------- bounds of the model ---------------- *)
NumRows == 2          \* rows in the input
MaxRuns == 3          \* process runs over the same input and output files
MaxCands == 2         \* candidates in one response
MaxRecords == 2       \* records in the file the lookup service reads
LatencyMs == 50        \* duration of one HTTP call

Min(a, b) == IF a < b THEN a ELSE b
Pow2(n) == IF n <= 0 THEN 1 ELSE 2 ^ n

(* ---------------- strings ---------------- *)
\* String.prototype.toUpperCase on the strings of the model
toUpperCase(s) ==
    CASE s = "Centro" -> "CENTRO"
      [] s = "Americana" -> "AMERICANA"
      [] s = "Guadalajara" -> "GUADALAJARA"
      [] s = "Jalisco" -> "JALISCO"
      [] OTHER -> s

\* String.prototype.toLowerCase on the strings of the model
toLowerCase(s) ==
    CASE s = "Guadalajara" -> "guadalajara"
      [] s = "Centro" -> "centro"
      [] s = "CENTRO" -> "centro"
      [] s = "Americana" -> "americana"
      [] s = "AMERICANA" -> "americana"
      [] s = "GUADALAJARA" -> "guadalajara"
      [] s = "Zapopan" -> "zapopan"
      [] s = "Jalisco" -> "jalisco"
      [] s = "JALISCO" -> "jalisco"
      [] s = "Colima" -> "colima"
      [] OTHER -> s

\* String.prototype.includes
includes(hay, needle) ==
    \E k \in 1..(Len(hay) - Len(needle) + 1) : SubSeq(hay, k, k + Len(needle) - 1) = needle

\* Array.prototype.join
RECURSIVE join(_, _)
join(parts, sep) ==
    IF Len(parts) = 0 THEN ""
    ELSE IF Len(parts) = 1 THEN parts[1]
    ELSE parts[1] \o sep \o join(Tail(parts), sep)

(* ---------------- input rows ---------------- *)
\* the normalized columns of a row that the pipeline reads
InputColumns == <<"postalCode", "settlement", "municipality", "settlementIdCpcons">>

RESUME_KEY_FIELDS == <<"postalCode", "settlement", "municipality", "settlementIdCpcons">>

\* Object.values(headerMap): the normalized names of the input columns
headerMap ==
    <<"postalCode", "settlement", "settlementType", "municipality", "state", "city",
      "postalCodeAlt", "stateCode", "officeCode", "postalCodeKey", "settlementTypeCode",
      "municipalityCode", "settlementIdCpcons", "zone", "cityCode">>

\* the columns of a record after the input columns
geoColumns ==
    <<"lat", "lon", "geocodeSource", "geocodeNote", "confidence", "missReason", "precision">>

outputColumns == headerMap \o geoColumns

rowCentro ==
    [postalCode |-> "44100", settlement |-> "Centro", settlementType |-> "Colonia",
     municipality |-> "Guadalajara", state |-> "Jalisco", city |-> "Guadalajara",
     postalCodeAlt |-> "44101", stateCode |-> "14", officeCode |-> "44101",
     postalCodeKey |-> "", settlementTypeCode |-> "09", municipalityCode |-> "039",
     settlementIdCpcons |-> "0001", zone |-> "Urbano", cityCode |-> "03"]
\* a distinct row with the resume key of rowCentro
rowCentroUpper == [rowCentro EXCEPT !.settlement = "CENTRO"]
rowAmericana == [rowCentro EXCEPT !.settlement = "Americana", !.settlementIdCpcons = "0002"]
\* a row without municipality
rowNoMuni == [rowCentro EXCEPT !.settlement = "Americana", !.municipality = ""]

RowSet == {rowCentro, rowCentroUpper, rowAmericana, rowNoMuni}

\* the inputs: every sequence of rows, up to the renaming of the first row
Inputs == {in \in [1..NumRows -> RowSet] : in[1] \in {rowCentro, rowNoMuni}}

\* makeResumeKey: upper-cased key fields joined with '|' (the trim removes nothing:
\* the fields were trimmed by toCamelEnglishHeaders and '|' is no white space)
makeResumeKey(row) ==
    LET parts == [f \in 1..Len(RESUME_KEY_FIELDS) |-> toUpperCase(row[RESUME_KEY_FIELDS[f]])]
        key == join(parts, "|")
    IN  IF key # "" THEN key ELSE "{" \o join([f \in 1..Len(InputColumns) |-> row[InputColumns[f]]], ",") \o "}"

(* ---------------- candidates of the geocoding service ---------------- *)
WHITELIST_TYPES ==
    {"postcode", "neighbourhood", "suburb", "residential", "city_district", "quarter",
     "hamlet", "village", "town", "locality", "administrative"}
WHITELIST_CLASSES == {"place", "boundary", "addr"}
\* mutant of BLACKLIST_CLASSES: roads are not dropped
BlacklistWithoutHighway == {"railway", "shop", "amenity", "office"}
BLACKLIST_CLASSES == {"highway", "railway", "shop", "amenity", "office"}

\* importance10 is importance * 10; postcode, postal_code and state are the fields of
\* address, muni is address.city || address.town || address.municipality || address.county
candPostcode ==
    [type |-> "postcode", class |-> "place", importance10 |-> 3, postcode |-> "44100", postal_code |-> "",
     state |-> "Jalisco", muni |-> "Guadalajara", lat |-> "20.67", lon |-> "-103.35"]
candAddress ==
    [type |-> "commercial", class |-> "landuse", importance10 |-> 2, postcode |-> "44100", postal_code |-> "",
     state |-> "Jalisco", muni |-> "Guadalajara", lat |-> "20.68", lon |-> "-103.36"]
candHood ==
    [type |-> "neighbourhood", class |-> "place", importance10 |-> 4, postcode |-> "", postal_code |-> "",
     state |-> "JALISCO", muni |-> "Zapopan", lat |-> "20.69", lon |-> "-103.37"]
candRoad ==
    [type |-> "primary", class |-> "highway", importance10 |-> 9, postcode |-> "44190", postal_code |-> "",
     state |-> "Jalisco", muni |-> "Guadalajara", lat |-> "20.70", lon |-> "-103.38"]
candAdmin ==
    [type |-> "administrative", class |-> "boundary", importance10 |-> 6, postcode |-> "", postal_code |-> "",
     state |-> "", muni |-> "Guadalajara", lat |-> "20.71", lon |-> "-103.39"]
candColima ==
    [type |-> "village", class |-> "place", importance10 |-> 8, postcode |-> "28000", postal_code |-> "",
     state |-> "Colima", muni |-> "Colima", lat |-> "19.24", lon |-> "-103.72"]

\* the postal code under address.postal_code only; in generic mode it scores as candHood
candAltCode ==
    [type |-> "residential", class |-> "landuse", importance10 |-> 4, postcode |-> "", postal_code |-> "44100",
     state |-> "Jalisco", muni |-> "Guadalajara", lat |-> "20.72", lon |-> "-103.40"]

CandidateSet ==
    {candPostcode, candAddress, candHood, candRoad, candAdmin, candColima, candAltCode}

\* the JSON arrays the service can answer with
Responses == UNION {[1..n -> CandidateSet] : n \in 0..MaxCands}

\* Environments. "ladder": one run of the process; until the run has geocoded its
\* first row the service may answer anything (any response, 429/403, another error
\* status, a failed connection). "resume": runs that follow one another, after
\* completion or a kill. "prior": one run that finds an output file it did not write
\* itself. In all, the plain service of the remaining rows answers 200 with one
\* postcode candidate or fails the connection.
Scenarios == {"ladder", "resume", "prior"}
PlainResponses == {<<candPostcode>>}
PlainErrorMessages == {"fetch failed"}
\* the messages of the exceptions a row can raise ("" stands for an error without message)
ErrorMessages == {"fetch failed", ""}

None == [type |-> "none"]

\* `candidate.address.postcode || candidate.address.postal_code`
addressPostcode(candidate) ==
    IF candidate.postcode # "" THEN candidate.postcode ELSE candidate.postal_code

\* isGoodCPMatch
isGoodCPMatch(cp, candidate) ==
    IF candidate.type = "postcode" THEN TRUE
    ELSE IF cp # "" /\ addressPostcode(candidate) # "" /\ cp = addressPostcode(candidate) THEN TRUE
    ELSE FALSE

\* Array.prototype.find with isGoodCPMatch: the first match in response order
findExact(cp, data) ==
    LET hits == {k \in 1..Len(data) : isGoodCPMatch(cp, data[k])}
    IN  IF hits = {} THEN None
        ELSE data[CHOOSE k \in hits : \A h \in hits : k <= h]

\* mutant of genericScore: no bonus for the municipality
genericScoreNoMunicipality(wantMuni, c) ==
    c.importance10
    + (IF c.type \in WHITELIST_TYPES THEN 12 ELSE 0)
    + (IF c.class \in WHITELIST_CLASSES THEN 6 ELSE 0)

\* the score pickBestGeneric gives a candidate of the pool
genericScore(wantMuni, c) ==
    c.importance10
    + (IF c.type \in WHITELIST_TYPES THEN 12 ELSE 0)
    + (IF c.class \in WHITELIST_CLASSES THEN 6 ELSE 0)
    + (IF wantMuni # "" /\ includes(toLowerCase(c.muni), wantMuni) THEN 6 ELSE 0)

\* the loop of pickBestGeneric over candidates k..Len(data), with best so far
RECURSIVE pickLoop(_, _, _, _, _)
pickLoop(wantMuni, data, k, best, bestScore) ==
    IF k > Len(data) THEN best
    ELSE LET c == data[k]
         IN  IF c.class \in BLACKLIST_CLASSES
             THEN pickLoop(wantMuni, data, k + 1, best, bestScore)
             ELSE IF c.state # "" /\ toLowerCase(c.state) # "jalisco"
             THEN pickLoop(wantMuni, data, k + 1, best, bestScore)
             ELSE IF best = None \/ genericScore(wantMuni, c) > bestScore
             THEN pickLoop(wantMuni, data, k + 1, c, genericScore(wantMuni, c))
             ELSE pickLoop(wantMuni, data, k + 1, best, bestScore)

\* pickBestGeneric (its postalCode parameter is not read)
pickBestGeneric(municipality, candidates) ==
    pickLoop(toLowerCase(municipality), candidates, 1, None, 0)

(* ---------------- strategy ladder ---------------- *)
\* mutant of StrategySource: the second strategy kept the label of the first
StrategySourceCopied ==
    <<"nominatim_cp_only_bias", "nominatim_cp_only_bias", "nominatim_cp_city",
      "nominatim_cp_county", "nominatim_cp_freetext", "nominatim_freetext",
      "nominatim_freetext_cp", "nominatim_municipality">>

\* geocodeSource of each strategy, in the order of geocodeWithFallback
StrategySource ==
    <<"nominatim_cp_only_bias", "nominatim_cp_only", "nominatim_cp_city",
      "nominatim_cp_county", "nominatim_cp_freetext", "nominatim_freetext",
      "nominatim_freetext_cp", "nominatim_municipality">>

\* the candidate strategy s accepts from response data (None when it accepts none)
acceptCandidate(s, row, data) ==
    IF Len(data) = 0 THEN None
    ELSE IF s <= 5 THEN findExact(row.postalCode, data)
    ELSE pickBestGeneric(row.municipality, data)

\* mutant of geoOf: the note is the default note, not the candidate's type
geoOfNoteOk(s, c) ==
    [lat |-> c.lat, lon |-> c.lon, geocodeSource |-> StrategySource[s], geocodeNote |-> "ok"]

\* the object geocodeWithFallback returns for an accepted candidate
geoOf(s, c) ==
    [lat |-> c.lat, lon |-> c.lon, geocodeSource |-> StrategySource[s],
     geocodeNote |-> IF c.type # "" THEN c.type ELSE "ok"]

\* mutant of geoNoResult: the note of the exhausted ladder is the default note
geoNoResultAsOk == [lat |-> "", lon |-> "", geocodeSource |-> "nominatim", geocodeNote |-> "ok"]

\* the object geocodeWithFallback returns when the ladder is exhausted
geoNoResult == [lat |-> "", lon |-> "", geocodeSource |-> "nominatim", geocodeNote |-> "no_result"]

\* String.prototype.startsWith
startsWith(s, prefix) == Len(s) >= Len(prefix) /\ SubSeq(s, 1, Len(prefix)) = prefix

\* mutant of confidenceTag: a postcode note is exact whatever the strategy
confidenceTagNoteFirst(source, note) ==
    IF note = "postcode" THEN "exact_postcode"
    ELSE IF source = "nominatim_freetext" \/ source = "nominatim_freetext_cp" THEN "text_locality"
    ELSE IF source = "nominatim_municipality" THEN "municipality_fallback"
    ELSE IF note = "no_result" THEN "no_result"
    ELSE "unknown"

\* confidenceTag
confidenceTag(source, note) ==
    IF startsWith(source, "nominatim_cp") /\ note = "postcode" THEN "exact_postcode"
    ELSE IF source = "nominatim_freetext" \/ source = "nominatim_freetext_cp" THEN "text_locality"
    ELSE IF source = "nominatim_municipality" THEN "municipality_fallback"
    ELSE IF note = "no_result" THEN "no_result"
    ELSE "unknown"

\* precisionMap[confidence] ?? 0
precisionOf(confidence) ==
    CASE confidence = "exact_postcode" -> 3
      [] confidence = "text_locality" -> 2
      [] confidence = "municipality_fallback" -> 1
      [] confidence = "no_result" -> 0
      [] OTHER -> 0

\* mutant of isMiss: every record below exact_postcode is a miss
isMissBelowExact(confidence) == confidence # "exact_postcode"

\* the condition of lines 336 and 417
isMiss(confidence) == confidence = "municipality_fallback" \/ confidence = "no_result"

\* mutant of copyColumn: the postal code is taken from the post-office column d_cp
copyColumnShifted(row, k) ==
    IF k = "postalCode" /\ "postalCodeAlt" \in DOMAIN row THEN row["postalCodeAlt"]
    ELSE IF k \in DOMAIN row THEN row[k] ELSE ""

\* `if (k in row) out[k] = row[k] ?? ''` over a column that starts as ''
copyColumn(row, k) == IF k \in DOMAIN row THEN row[k] ELSE ""

\* normalizeRowForOutput
normalizeRowForOutput(row, geo) ==
    LET confidence == confidenceTag(geo.geocodeSource, geo.geocodeNote)
    IN  [postalCode |-> copyColumn(row, "postalCode"),
         settlement |-> copyColumn(row, "settlement"),
         settlementType |-> copyColumn(row, "settlementType"),
         municipality |-> copyColumn(row, "municipality"),
         state |-> copyColumn(row, "state"),
         city |-> copyColumn(row, "city"),
         postalCodeAlt |-> copyColumn(row, "postalCodeAlt"),
         stateCode |-> copyColumn(row, "stateCode"),
         officeCode |-> copyColumn(row, "officeCode"),
         postalCodeKey |-> copyColumn(row, "postalCodeKey"),
         settlementTypeCode |-> copyColumn(row, "settlementTypeCode"),
         municipalityCode |-> copyColumn(row, "municipalityCode"),
         settlementIdCpcons |-> copyColumn(row, "settlementIdCpcons"),
         zone |-> copyColumn(row, "zone"),
         cityCode |-> copyColumn(row, "cityCode"),
         lat |-> geo.lat, lon |-> geo.lon,
         geocodeSource |-> geo.geocodeSource, geocodeNote |-> geo.geocodeNote,
         confidence |-> confidence,
         missReason |-> IF isMiss(confidence) THEN geo.geocodeNote ELSE "",
         precision |-> precisionOf(confidence)]


\* the geocodeNote of the catch block: `error_${e?.message || 'unknown'}`
errorNote(message) == "error_" \o (IF message # "" THEN message ELSE "unknown")

\* mutant of errorRecord: the catch block does not overwrite confidence, missReason
\* and precision
errorRecordAsTagged(row, message) ==
    normalizeRowForOutput(row,
        [lat |-> "", lon |-> "", geocodeSource |-> "nominatim",
         geocodeNote |-> errorNote(message)])

\* the record the catch block of main writes
errorRecord(row, message) ==
    LET out == normalizeRowForOutput(row,
                   [lat |-> "", lon |-> "", geocodeSource |-> "nominatim",
                    geocodeNote |-> errorNote(message)])
    IN  [out EXCEPT !.confidence = "no_result", !.missReason = out.geocodeNote, !.precision = 0]

\* an output file found at startup: it holds a geocoded record of a row without
\* municipality (written for an earlier edition of the input, or by hand)
PriorOutput ==
    <<[postalCode |-> rowNoMuni.postalCode, settlement |-> rowNoMuni.settlement,
       municipality |-> rowNoMuni.municipality,
       settlementIdCpcons |-> rowNoMuni.settlementIdCpcons,
       lat |-> "20.67", lon |-> "-103.35", geocodeSource |-> "nominatim_cp_only_bias",
       geocodeNote |-> "postcode", confidence |-> "exact_postcode", missReason |-> "",
       precision |-> 3]>>

(* ---------------- resume index ---------------- *)
\* `row.lat && row.lon` on a parsed CSV row
hasCoords(rec) == rec.lat # "" /\ rec.lon # ""

\* the key readAlreadyProcessedKeys computes from a parsed CSV row
csvRowKey(rec) ==
    join([f \in 1..Len(RESUME_KEY_FIELDS) |-> toUpperCase(rec[RESUME_KEY_FIELDS[f]])], "|")

\* a parsed line none of whose columns has a name the scan reads: row.lat, row.lon and
\* the key fields are undefined
NamelessRow ==
    [postalCode |-> "", settlement |-> "", municipality |-> "", settlementIdCpcons |-> "",
     lat |-> "", lon |-> ""]

\* parseCsv({ columns: true }) over the lines of the file: the first line names the
\* columns. When the file has no header line, its first record is taken for the
\* column names and the other records are keyed by the values of that record.
parseCsv(file, headed) ==
    IF headed THEN file ELSE [k \in 1..(Len(file) - 1) |-> NamelessRow]

\* readAlreadyProcessedKeys over the parsed records of an existing output file
readAlreadyProcessedKeys(file) ==
    {csvRowKey(file[k]) : k \in {j \in 1..Len(file) : hasCoords(file[j]) /\ csvRowKey(file[j]) # ""}}

(* ---------------- transport ---------------- *)
\* mutant of throttleBackoff: the cap of 30 s is applied to Retry-After too
throttleBackoffCapped(retryAfter, att, jitter) ==
    IF retryAfter # 0 THEN Min(30000, retryAfter * 1000)
    ELSE Min(30000, Pow2(att) * 1000) + jitter

\* mutant of throttleBackoff: the exponential delay is not capped
throttleBackoffUncapped(retryAfter, att, jitter) ==
    IF retryAfter # 0 THEN retryAfter * 1000
    ELSE Pow2(att) * 1000 + jitter

\* the sleep of nominatimFetch after a 429/403 (retryAfter = 0: no Retry-After header)
throttleBackoff(retryAfter, att, jitter) ==
    IF retryAfter # 0 THEN retryAfter * 1000
    ELSE Min(30000, Pow2(att) * 1000) + jitter

\* mutant of errorBackoff: the delay of the 429/403 branch
errorBackoffAsThrottle(att, jitter) == Min(30000, Pow2(att) * 1000) + jitter

\* the sleep of nominatimFetch after another error status
errorBackoff(att, jitter) == Min(20000, Pow2(att) * 500) + jitter

\* mutant of canRetry: one retry less
canRetryStrict(att) == att < MAX_RETRIES

\* `attempt <= MAX_RETRIES`
canRetry(att) == att <= MAX_RETRIES

\* values of Retry-After (seconds; 0: header absent) and of the two jitters
RetryAfterValues == {0, 5, 60}
ThrottleJitters == {0, 499}
ErrorJitters == {0, 299}
Latencies == {LatencyMs}

(* ---------------- state machine of main ---------------- *)
Running == pc \in {"row", "ready", "inflight", "backoff"}

\* the service is unrestricted (see Scenarios)
RichService == scenario = "ladder" /\ processed + errors = 0

ZeroPerRow == [k \in 1..NumRows |-> 0]
NoneAsked == [k \in 1..NumRows |-> <<>>]

\* a failed attempt that is retried: 429/403 or another status, the Retry-After value
\* (0: none), the jitter drawn (0 when none is drawn) and the resulting sleep
failedAttempt(throttled, retryAfter, jitter, sleepMs) ==
    [throttled |-> throttled, retryAfter |-> retryAfter, jitter |-> jitter, sleep |-> sleepMs]
NoFail == [throttled |-> FALSE, retryAfter |-> 0, jitter |-> 0, sleep |-> 0]

\* the saturated differences after d more milliseconds
elapsed(since, d) == Min(since + d, ONE_SECOND_MS)

\* createCsvWriter: fs.createWriteStream with flags 'a' when the file exists, else 'w'
openFile(file, exists) == IF exists THEN file ELSE <<>>

\* mutant of headerOption: every stringifier writes a header
headerOptionAlways(exists) == TRUE

\* createCsvWriter: `header: !exists`
headerOption(exists) == ~exists

\* the header lines a stringifier writes before its first record, or at its end when it
\* was given no record
headerLines(due) == IF due THEN 1 ELSE 0

\* no request served by the lookup service yet
NoRequest == [municipality |-> "", neighborhood |-> "", zipCode |-> ""]
NoResponse == [status |-> 0]

\* mutant of write: the record is written twice
writeTwice(stream, out) == Append(Append(stream, out), out)

\* stringifier.write / missStr.write: the record joins the stream
write(stream, out) == Append(stream, out)

\* no exception caught yet
NoError == "-"

\* the value of r before a call of the ladder has returned
NoResult == [ok |-> TRUE, status |-> 0, data |-> 0]

\* no array was read from a response in the step
NoJson == [read |-> FALSE, data |-> <<>>]

\* the pipeline before its first run
PipelineStart ==
    /\ run = 1
    /\ pc = "init"
    /\ outFile = (IF scenario = "prior" THEN PriorOutput ELSE <<>>) /\ missFile = <<>>
    /\ outExists = (scenario = "prior") /\ missExists = FALSE
    /\ startLen = 0
    /\ i = 1 /\ strat = 1 /\ attempt = 1 /\ backoff = 0
    /\ r = NoResult
    /\ doneKeys = {}
    /\ outBuf = <<>> /\ missBuf = <<>>
    /\ processed = 0 /\ skipped = 0 /\ errors = 0
    /\ sinceCall = ONE_SECOND_MS /\ sinceReq = ONE_SECOND_MS /\ gap = ONE_SECOND_MS
    /\ nreq = 0 /\ caught = NoError /\ lastFail = NoFail
    /\ queried = {} /\ appended = ZeroPerRow /\ missed = ZeroPerRow /\ asked = NoneAsked
    /\ abortCause = ""
    /\ calls = 0
    /\ outHdrDue = FALSE /\ missHdrDue = FALSE
    /\ outHeader = (IF scenario = "prior" THEN "disk" ELSE "none")
    /\ outHeaders = 0 /\ missHeaders = 0
    /\ json = NoJson

\* the lookup service has served no request
LookupIdle == request = NoRequest /\ response = NoResponse

Init ==
    /\ scenario \in Scenarios
    /\ rows \in Inputs
    /\ PipelineStart
    /\ csvData = <<>> /\ LookupIdle

\* the memory of the process is as a new process has it (line 390: lastCallAt = 0)
ProcessMemoryReset ==
    /\ i' = 1 /\ strat' = 1 /\ attempt' = 1 /\ backoff' = 0
    /\ r' = NoResult
    /\ doneKeys' = {}
    /\ outBuf' = <<>> /\ missBuf' = <<>>
    /\ processed' = 0 /\ skipped' = 0 /\ errors' = 0
    /\ sinceCall' = ONE_SECOND_MS /\ sinceReq' = ONE_SECOND_MS /\ gap' = ONE_SECOND_MS
    /\ nreq' = 0 /\ caught' = NoError /\ lastFail' = NoFail
    /\ calls' = 0 /\ outHdrDue' = FALSE /\ missHdrDue' = FALSE
    /\ outHeader' = (IF outHeader = "buffered" THEN "none" ELSE outHeader)

\* main, lines 346-391: the input is read, the resume index built, both writers opened
StartRun ==
    /\ pc = "init"
    /\ doneKeys' = IF outExists
                   THEN readAlreadyProcessedKeys(parseCsv(outFile, outHeader = "disk"))
                   ELSE {}
    /\ outExists' = TRUE /\ missExists' = TRUE
    /\ startLen' = Len(outFile)
    /\ queried' = {} /\ appended' = ZeroPerRow /\ missed' = ZeroPerRow
    /\ asked' = NoneAsked
    /\ outHdrDue' = headerOption(outExists) /\ missHdrDue' = headerOption(missExists)
    /\ pc' = "row"
    /\ outFile' = openFile(outFile, outExists) /\ missFile' = openFile(missFile, missExists)
    /\ json' = NoJson
    /\ UNCHANGED <<csvData, request, response, calls, outHeader, outHeaders, missHeaders,
                   scenario, rows, run, i, strat, attempt, backoff, r, outBuf,
                   missBuf, processed, skipped, errors, sinceCall, sinceReq, gap, nreq,
                   abortCause, caught, lastFail>>

\* the run ends before the row loop, for the given cause
AbortWith(cause) ==
    /\ pc' = "aborted" /\ abortCause' = cause
    /\ json' = NoJson
    /\ UNCHANGED <<csvData, request, response, calls, outHeader, outHdrDue, missHdrDue,
                   outHeaders, missHeaders,
                   scenario, rows, run, i, strat, attempt, backoff, r, doneKeys, outFile, missFile,
                   outBuf, missBuf, processed, skipped, errors, sinceCall, sinceReq,
                   gap, nreq, queried, appended, missed, startLen, caught, lastFail, asked>>

\* line 348: the input file does not exist (process.exit(1)), or XLSX.readFile throws
StartInputUnreadable ==
    /\ pc = "init"
    /\ UNCHANGED <<outExists, missExists>>
    /\ AbortWith("input")

\* lines 94-105, 383: the read stream or the CSV parser of the existing output file
\* emits 'error'; the promise rejects and main has no handler for it
StartScanFails ==
    /\ pc = "init" /\ outExists
    /\ UNCHANGED <<outExists, missExists>>
    /\ AbortWith("scan")

\* lines 323, 386-388: a write stream cannot be opened; its 'error' event has no listener
StartOpenFails ==
    /\ pc = "init"
    /\ UNCHANGED <<outExists, missExists>>
    /\ AbortWith("open")

\* mutant of SkipMissing: the skipped row is not counted
SkipMissingUncounted ==
    /\ pc = "row" /\ i <= Len(rows)
    /\ rows[i].municipality = ""
    /\ i' = i + 1
    /\ json' = NoJson
    /\ UNCHANGED <<csvData, request, response, calls, outHeader, outHdrDue, missHdrDue,
                   outHeaders, missHeaders,
                   scenario, rows, run, pc, strat, attempt, backoff, r, doneKeys, outFile, missFile,
                   outBuf, missBuf, outExists, missExists, processed, skipped, errors, sinceCall,
                   sinceReq, gap, nreq, queried, appended, missed, startLen,
                   abortCause, caught, lastFail, asked>>

\* line 398: the row has no municipality
SkipMissing ==
    /\ pc = "row" /\ i <= Len(rows)
    /\ rows[i].municipality = ""
    /\ skipped' = skipped + 1 /\ i' = i + 1
    /\ json' = NoJson
    /\ UNCHANGED <<csvData, request, response, calls, outHeader, outHdrDue, missHdrDue,
                   outHeaders, missHeaders,
                   scenario, rows, run, pc, strat, attempt, backoff, r, doneKeys, outFile, missFile,
                   outBuf, missBuf, outExists, missExists, processed, errors, sinceCall,
                   sinceReq, gap, nreq, queried, appended, missed, startLen,
                   abortCause, caught, lastFail, asked>>

\* lines 400-404: the row's resume key is in the completed set
SkipResumed ==
    /\ pc = "row" /\ i <= Len(rows)
    /\ rows[i].municipality # ""
    /\ makeResumeKey(rows[i]) \in doneKeys
    /\ skipped' = skipped + 1 /\ i' = i + 1
    /\ json' = NoJson
    /\ UNCHANGED <<csvData, request, response, calls, outHeader, outHdrDue, missHdrDue,
                   outHeaders, missHeaders,
                   scenario, rows, run, pc, strat, attempt, backoff, r, doneKeys, outFile, missFile,
                   outBuf, missBuf, outExists, missExists, processed, errors, sinceCall,
                   sinceReq, gap, nreq, queried, appended, missed, startLen,
                   abortCause, caught, lastFail, asked>>

\* mutant of rowWait: the row loop waits out half a second only
rowWaitHalf(since) == IF since < 500 THEN 500 - since ELSE 0

\* the sleep of line 407
rowWait(since) == IF since < ONE_SECOND_MS THEN ONE_SECOND_MS - since ELSE 0

\* mutant of BeginRow: the municipality of the row is not looked at
BeginRowAnyMunicipality ==
    /\ pc = "row" /\ i <= Len(rows)
    /\ makeResumeKey(rows[i]) \notin doneKeys
    /\ sinceCall' = elapsed(sinceCall, rowWait(sinceCall))
    /\ sinceReq' = elapsed(sinceReq, rowWait(sinceCall))
    /\ strat' = 1 /\ attempt' = 1 /\ nreq' = 0 /\ pc' = "ready"
    /\ json' = NoJson
    /\ UNCHANGED <<csvData, request, response, calls, outHeader, outHdrDue, missHdrDue,
                   outHeaders, missHeaders,
                   scenario, rows, run, i, backoff, r, doneKeys, outFile, missFile, outBuf, missBuf,
                   outExists, missExists, processed, skipped, errors, gap,
                   queried, appended, missed, startLen, abortCause, caught, lastFail, asked>>

\* lines 406-410: the row is processed; wait out the second since lastCallAt, then
\* enter geocodeWithFallback
BeginRow ==
    /\ pc = "row" /\ i <= Len(rows)
    /\ rows[i].municipality # ""
    /\ makeResumeKey(rows[i]) \notin doneKeys
    /\ sinceCall' = elapsed(sinceCall, rowWait(sinceCall))
    /\ sinceReq' = elapsed(sinceReq, rowWait(sinceCall))
    /\ strat' = 1 /\ attempt' = 1 /\ nreq' = 0 /\ pc' = "ready"
    /\ json' = NoJson
    /\ UNCHANGED <<csvData, request, response, calls, outHeader, outHdrDue, missHdrDue,
                   outHeaders, missHeaders,
                   scenario, rows, run, i, backoff, r, doneKeys, outFile, missFile, outBuf, missBuf,
                   outExists, missExists, processed, skipped, errors, gap,
                   queried, appended, missed, startLen, abortCause, caught, lastFail, asked>>

\* mutant of Send: a request is started without awaiting the one in flight
SendUnawaited ==
    /\ pc \in {"ready", "inflight"}
    /\ pc' = "inflight"
    /\ gap' = sinceReq /\ sinceReq' = 0
    /\ nreq' = IF attempt = 1 THEN 1 ELSE nreq + 1
    /\ queried' = queried \cup {i}
    /\ calls' = calls + 1
    /\ asked' = IF attempt = 1 /\ pc = "ready" THEN [asked EXCEPT ![i] = Append(@, strat)] ELSE asked
    /\ json' = NoJson
    /\ UNCHANGED <<csvData, request, response, outHeader, outHdrDue, missHdrDue,
                   outHeaders, missHeaders,
                   scenario, rows, run, i, strat, attempt, backoff, r, doneKeys, outFile, missFile,
                   outBuf, missBuf, outExists, missExists, processed, skipped, errors,
                   sinceCall, appended, missed, startLen, abortCause, caught, lastFail>>

\* line 111: fetch starts an outbound request
Send ==
    /\ pc = "ready"
    /\ pc' = "inflight"
    /\ gap' = sinceReq /\ sinceReq' = 0
    /\ nreq' = IF attempt = 1 THEN 1 ELSE nreq + 1
    /\ queried' = queried \cup {i}
    /\ calls' = calls + 1
    /\ asked' = IF attempt = 1 THEN [asked EXCEPT ![i] = Append(@, strat)] ELSE asked
    /\ json' = NoJson
    /\ UNCHANGED <<csvData, request, response, outHeader, outHdrDue, missHdrDue,
                   outHeaders, missHeaders,
                   scenario, rows, run, i, strat, attempt, backoff, r, doneKeys, outFile, missFile,
                   outBuf, missBuf, outExists, missExists, processed, skipped, errors,
                   sinceCall, appended, missed, startLen, abortCause, caught, lastFail>>

\* lines 411-419: geocodeWithFallback returned geo; the record is written
FinishRow(geo) ==
    LET out == normalizeRowForOutput(rows[i], geo)
    IN  /\ i' = i + 1 /\ pc' = "row"
        /\ sinceCall' = 0
        /\ outBuf' = write(outBuf, out)
        /\ processed' = processed + 1
        /\ missBuf' = IF isMiss(out.confidence) THEN write(missBuf, out) ELSE missBuf
        /\ outHeaders' = outHeaders + headerLines(outHdrDue) /\ outHdrDue' = FALSE
        /\ outHeader' = (IF outHdrDue THEN "buffered" ELSE outHeader)
        /\ missHeaders' = missHeaders + (IF isMiss(out.confidence) THEN headerLines(missHdrDue) ELSE 0)
        /\ missHdrDue' = (missHdrDue /\ ~isMiss(out.confidence))
        /\ appended' = [appended EXCEPT ![i] = @ + (Len(outBuf') - Len(outBuf))]
        /\ missed' = [missed EXCEPT ![i] = @ + (Len(missBuf') - Len(missBuf))]
        /\ strat' = 1 /\ attempt' = 1 /\ r' = NoResult
        /\ UNCHANGED errors

\* mutant of AdvanceLadder: the municipality strategy is never tried
AdvanceLadderSkipsLast(res, d) ==
    IF strat < NumStrategies - 1
    THEN /\ strat' = strat + 1 /\ attempt' = 1 /\ pc' = "ready"
         /\ r' = res
         /\ sinceCall' = elapsed(sinceCall, d)
         /\ UNCHANGED <<i, outBuf, missBuf, processed, errors, appended, missed,
                        outHeader, outHdrDue, missHdrDue, outHeaders, missHeaders>>
    ELSE FinishRow(geoNoResult)

\* mutant of AdvanceLadder: the next strategy goes on with the attempts left over
AdvanceLadderKeepsAttempt(res, d) ==
    IF strat < NumStrategies
    THEN /\ strat' = strat + 1 /\ attempt' = attempt /\ pc' = "ready"
         /\ r' = res
         /\ sinceCall' = elapsed(sinceCall, d)
         /\ UNCHANGED <<i, outBuf, missBuf, processed, errors, appended, missed,
                        outHeader, outHdrDue, missHdrDue, outHeaders, missHeaders>>
    ELSE FinishRow(geoNoResult)

\* the query of the strategy ended with result res after a last call of d ms and
\* nothing was accepted: the ladder advances, or geocodeWithFallback returns
\* no_result after the last strategy (line 317)
AdvanceLadder(res, d) ==
    IF strat < NumStrategies
    THEN /\ strat' = strat + 1 /\ attempt' = 1 /\ pc' = "ready"
         /\ r' = res
         /\ sinceCall' = elapsed(sinceCall, d)
         /\ UNCHANGED <<i, outBuf, missBuf, processed, errors, appended, missed,
                        outHeader, outHdrDue, missHdrDue, outHeaders, missHeaders>>
    ELSE FinishRow(geoNoResult)

\* lines 132-133 and the strategy's acceptance: the call answered after d ms with
\* status 2xx and the JSON array data
RecvOkWith(data, d) ==
    /\ pc = "inflight"
    /\ LET pick == acceptCandidate(strat, rows[i], data)
           res == [ok |-> TRUE, status |-> 200, data |-> Len(data)]
       IN  /\ sinceReq' = elapsed(sinceReq, d)
           /\ IF pick # None THEN FinishRow(geoOf(strat, pick)) ELSE AdvanceLadder(res, d)
    /\ backoff' = 0 /\ lastFail' = NoFail /\ calls' = calls - 1
    /\ json' = [read |-> TRUE, data |-> data]
    /\ UNCHANGED <<csvData, request, response,
                   scenario, rows, run, doneKeys, outFile, missFile, outExists, missExists,
                   skipped, gap, nreq, queried, startLen, abortCause, caught, asked>>

\* a 2xx response, with any array the service can answer with
RecvOk ==
    \E data \in (IF RichService THEN Responses ELSE PlainResponses), d \in Latencies :
        RecvOkWith(data, d)

\* a failed attempt of nominatimFetch: sleep and retry while canRetry, else return
\* { ok: false, status, data: [] } to the ladder (lines 116-121, 124-130)
RetryOrGiveUp(status, sleepMs, d) ==
    /\ sinceReq' = elapsed(sinceReq, d)
    /\ calls' = calls - 1
    /\ IF canRetry(attempt)
       THEN /\ pc' = "backoff" /\ backoff' = sleepMs
            /\ sinceCall' = elapsed(sinceCall, d)
            /\ UNCHANGED <<r, i, strat, attempt, outBuf, missBuf, processed, errors,
                           appended, missed, outHeader, outHdrDue, missHdrDue,
                           outHeaders, missHeaders>>
       ELSE /\ backoff' = 0
            /\ AdvanceLadder([ok |-> FALSE, status |-> status, data |-> 0], d)
    /\ json' = NoJson
    /\ UNCHANGED <<csvData, request, response,
                   scenario, rows, run, doneKeys, outFile, missFile, outExists, missExists,
                   skipped, gap, nreq, queried, startLen, abortCause, caught, asked>>

\* lines 112-122: status 429 or 403
RecvThrottled ==
    /\ pc = "inflight" /\ RichService
    /\ \E status \in {429, 403}, retryAfter \in RetryAfterValues,
          jitter \in ThrottleJitters, d \in Latencies :
          /\ RetryOrGiveUp(status, throttleBackoff(retryAfter, attempt, jitter), d)
          /\ lastFail' = IF canRetry(attempt)
                         THEN failedAttempt(TRUE, retryAfter,
                                            IF retryAfter # 0 THEN 0 ELSE jitter,
                                            throttleBackoff(retryAfter, attempt, jitter))
                         ELSE NoFail

\* lines 123-131: another status that is not ok
RecvError ==
    /\ pc = "inflight" /\ RichService
    /\ \E jitter \in ErrorJitters, d \in Latencies :
          /\ RetryOrGiveUp(500, errorBackoff(attempt, jitter), d)
          /\ lastFail' = IF canRetry(attempt)
                         THEN failedAttempt(FALSE, 0, jitter, errorBackoff(attempt, jitter))
                         ELSE NoFail

\* lines 118-119, 127-128: the retry sleep is over, nominatimFetch calls itself
Wake ==
    /\ pc = "backoff"
    /\ sinceCall' = elapsed(sinceCall, backoff)
    /\ sinceReq' = elapsed(sinceReq, backoff)
    /\ attempt' = attempt + 1 /\ backoff' = 0 /\ pc' = "ready"
    /\ json' = NoJson
    /\ UNCHANGED <<csvData, request, response, calls, outHeader, outHdrDue, missHdrDue,
                   outHeaders, missHeaders,
                   scenario, rows, run, i, strat, r, doneKeys, outFile, missFile, outBuf, missBuf,
                   outExists, missExists, processed, skipped, errors, gap, nreq,
                   queried, appended, missed, startLen, abortCause, caught, lastFail, asked>>

\* mutant of RecvThrow: the exception is not caught and ends the run
RecvThrowUncaught ==
    /\ pc = "inflight"
    /\ pc' = "aborted" /\ abortCause' = "row" /\ errors' = errors + 1
    /\ calls' = calls - 1
    /\ json' = NoJson
    /\ UNCHANGED <<csvData, request, response, outHeader, outHdrDue, missHdrDue,
                   outHeaders, missHeaders,
                   scenario, rows, run, i, strat, attempt, backoff, r, doneKeys, outFile,
                   missFile, outBuf, missBuf, outExists, missExists, processed, skipped,
                   sinceCall, sinceReq, gap, nreq, queried, appended, missed, startLen,
                   caught, lastFail, asked>>

\* lines 423-430: fetch or res.json() throws; the catch block of main writes the row
RecvThrow ==
    /\ pc = "inflight"
    /\ \E message \in (IF RichService THEN ErrorMessages ELSE PlainErrorMessages), d \in Latencies :
          LET out == errorRecord(rows[i], message)
          IN  /\ errors' = errors + 1
              /\ caught' = message
              /\ sinceCall' = 0
              /\ sinceReq' = elapsed(sinceReq, d)
              /\ outBuf' = write(outBuf, out)
              /\ missBuf' = write(missBuf, out)
              /\ outHeaders' = outHeaders + headerLines(outHdrDue) /\ outHdrDue' = FALSE
              /\ outHeader' = (IF outHdrDue THEN "buffered" ELSE outHeader)
              /\ missHeaders' = missHeaders + headerLines(missHdrDue) /\ missHdrDue' = FALSE
              /\ appended' = [appended EXCEPT ![i] = @ + (Len(outBuf') - Len(outBuf))]
              /\ missed' = [missed EXCEPT ![i] = @ + (Len(missBuf') - Len(missBuf))]
    /\ i' = i + 1 /\ pc' = "row" /\ backoff' = 0
    /\ strat' = 1 /\ attempt' = 1 /\ r' = NoResult /\ lastFail' = NoFail
    /\ calls' = calls - 1
    /\ json' = NoJson
    /\ UNCHANGED <<csvData, request, response,
                   scenario, rows, run, doneKeys, outFile, missFile, outExists,
                   missExists, processed, skipped, gap, nreq, queried, startLen,
                   abortCause, asked>>

\* the write stream of OUTPUT_CSV puts its oldest pending record on disk
FlushOut ==
    /\ Running /\ outBuf # <<>>
    /\ outFile' = Append(outFile, Head(outBuf)) /\ outBuf' = Tail(outBuf)
    /\ outHeader' = (IF outHeader = "buffered" THEN "disk" ELSE outHeader)
    /\ json' = NoJson
    /\ UNCHANGED <<csvData, request, response, calls, outHdrDue, missHdrDue,
                   outHeaders, missHeaders,
                   scenario, rows, run, pc, i, strat, attempt, backoff, r, doneKeys, missFile,
                   missBuf, outExists, missExists, processed, skipped, errors, sinceCall,
                   sinceReq, gap, nreq, queried, appended, missed, startLen,
                   abortCause, caught, lastFail, asked>>

\* the write stream of misses.csv puts its oldest pending record on disk
FlushMiss ==
    /\ Running /\ missBuf # <<>>
    /\ missFile' = Append(missFile, Head(missBuf)) /\ missBuf' = Tail(missBuf)
    /\ json' = NoJson
    /\ UNCHANGED <<csvData, request, response, calls, outHeader, outHdrDue, missHdrDue,
                   outHeaders, missHeaders,
                   scenario, rows, run, pc, i, strat, attempt, backoff, r, doneKeys, outFile,
                   outBuf, outExists, missExists, processed, skipped, errors, sinceCall,
                   sinceReq, gap, nreq, queried, appended, missed, startLen,
                   abortCause, caught, lastFail, asked>>

\* lines 433-437: the loop is over; both streams are ended and their 'finish' awaited
EndRun ==
    /\ pc = "row" /\ i > Len(rows)
    /\ outFile' = outFile \o outBuf /\ outBuf' = <<>>
    /\ missFile' = missFile \o missBuf /\ missBuf' = <<>>
    /\ outHeaders' = outHeaders + headerLines(outHdrDue) /\ outHdrDue' = FALSE
    /\ outHeader' = (IF outHdrDue \/ outHeader = "buffered" THEN "disk" ELSE outHeader)
    /\ missHeaders' = missHeaders + headerLines(missHdrDue) /\ missHdrDue' = FALSE
    /\ pc' = "done"
    /\ json' = NoJson
    /\ UNCHANGED <<csvData, request, response, calls,
                   scenario, rows, run, i, strat, attempt, backoff, r, doneKeys, outExists,
                   missExists, processed, skipped, errors, sinceCall, sinceReq, gap, nreq,
                   queried, appended, missed, startLen, abortCause, caught, lastFail, asked>>

\* the process is killed: its memory is gone, and with it what the streams had not
\* yet put on disk
Kill ==
    /\ Running
    /\ pc' = "killed"
    /\ ProcessMemoryReset
    /\ json' = NoJson
    /\ UNCHANGED <<csvData, request, response, outHeaders, missHeaders,
                   scenario, rows, run, outFile, missFile, outExists, missExists, queried,
                   appended, missed, startLen, abortCause, asked>>

\* the script is started again over the same input and output files
Restart ==
    /\ scenario = "resume"
    /\ pc \in {"done", "killed"}
    /\ run < MaxRuns
    /\ run' = run + 1 /\ pc' = "init"
    /\ ProcessMemoryReset
    /\ json' = NoJson
    /\ UNCHANGED <<csvData, request, response, outHeaders, missHeaders,
                   scenario, rows, outFile, missFile, outExists, missExists, queried,
                   appended, missed, startLen, abortCause, asked>>

Next ==
    \/ StartRun \/ StartInputUnreadable \/ StartScanFails \/ StartOpenFails
    \/ SkipMissing \/ SkipResumed \/ BeginRow
    \/ Send \/ RecvOk \/ RecvThrottled \/ RecvError \/ RecvThrow \/ Wake
    \/ FlushOut \/ FlushMiss \/ EndRun \/ Kill \/ Restart

Spec == Init /\ [][Next]_vars

(* ---------------- lookup service: GET /location/coordinates ---------------- *)
\* String.prototype.trim
RECURSIVE trimStart(_)
trimStart(s) == IF Len(s) > 0 /\ SubSeq(s, 1, 1) = " " THEN trimStart(SubSeq(s, 2, Len(s))) ELSE s
RECURSIVE trimEnd(_)
trimEnd(s) ==
    IF Len(s) > 0 /\ SubSeq(s, Len(s), Len(s)) = " " THEN trimEnd(SubSeq(s, 1, Len(s) - 1)) ELSE s
trim(s) == trimEnd(trimStart(s))

\* the value of a decimal digit (-1: not a digit)
digit(c) ==
    CASE c = "0" -> 0 [] c = "1" -> 1 [] c = "2" -> 2 [] c = "3" -> 3 [] c = "4" -> 4
      [] c = "5" -> 5 [] c = "6" -> 6 [] c = "7" -> 7 [] c = "8" -> 8 [] c = "9" -> 9
      [] OTHER -> -1

\* the digits of s from position k on, read into acc; decimals counts the digits read
\* after the point (-1: before the point); the result is in hundredths
RECURSIVE parseDigits(_, _, _, _)
parseDigits(s, k, acc, decimals) ==
    IF k > Len(s) \/ decimals = 2
    THEN (IF decimals <= 0 THEN acc * 100 ELSE IF decimals = 1 THEN acc * 10 ELSE acc)
    ELSE LET c == SubSeq(s, k, k)
         IN  IF c = "." /\ decimals = -1 THEN parseDigits(s, k + 1, acc, 0)
             ELSE IF digit(c) < 0
             THEN (IF decimals <= 0 THEN acc * 100 ELSE IF decimals = 1 THEN acc * 10 ELSE acc)
             ELSE parseDigits(s, k + 1, acc * 10 + digit(c),
                              IF decimals = -1 THEN -1 ELSE decimals + 1)

\* parseFloat on the coordinates of the file, in hundredths of a degree
parseFloat(s) ==
    IF Len(s) > 0 /\ SubSeq(s, 1, 1) = "-" THEN 0 - parseDigits(s, 2, 0, -1)
    ELSE parseDigits(s, 1, 0, -1)

\* the records the pipeline writes, as the lookup service reads them back
LookupRecords ==
    {normalizeRowForOutput(rowCentro, geoOf(1, candPostcode)),
     normalizeRowForOutput(rowCentroUpper, geoOf(6, candHood)),
     normalizeRowForOutput(rowAmericana, geoOf(8, candAdmin)),
     normalizeRowForOutput(rowCentro, geoNoResult)}

Datasets == UNION {[1..n -> LookupRecords] : n \in 0..MaxRecords}

\* the query parameters of the requests (all three are required by the route)
RequestMunicipalities == {"Guadalajara", "guadalajara"}
RequestNeighborhoods == {"Centro", "centro", "Americana"}
RequestZipCodes == {"44100", "44160"}

\* the comparison searchLocationCoordinates makes for municipality and neighborhood
sameName(stored, wanted) ==
    wanted = "" \/ (stored # "" /\ toLowerCase(trim(stored)) = trim(toLowerCase(wanted)))

\* the comparison it makes for the postal code
sameZipCode(stored, wanted) == wanted = "" \/ (stored # "" /\ trim(stored) = trim(wanted))

\* the predicate of csvData.find
rowMatches(row, municipality, neighborhood, zipCode) ==
    /\ sameName(row.municipality, municipality)
    /\ sameName(row.settlement, neighborhood)
    /\ sameZipCode(row.postalCode, zipCode)

Null == [found |-> FALSE]

\* mutant of searchLocationCoordinates: the first matching record that has both
\* coordinates is taken
searchLocationCoordinatesGeocoded(data, municipality, neighborhood, zipCode) ==
    LET hits == {k \in 1..Len(data) :
                    /\ rowMatches(data[k], municipality, neighborhood, zipCode)
                    /\ data[k].lat # "" /\ data[k].lon # ""}
    IN  IF hits = {} THEN Null
        ELSE LET match == data[CHOOSE k \in hits : \A h \in hits : k <= h]
             IN  [found |-> TRUE, lat |-> parseFloat(match.lat), lng |-> parseFloat(match.lon)]

\* searchLocationCoordinates over the records data
searchLocationCoordinates(data, municipality, neighborhood, zipCode) ==
    LET hits == {k \in 1..Len(data) : rowMatches(data[k], municipality, neighborhood, zipCode)}
    IN  IF hits = {} THEN Null
        ELSE LET match == data[CHOOSE k \in hits : \A h \in hits : k <= h]
             IN  IF match.lat # "" /\ match.lon # ""
                 THEN [found |-> TRUE, lat |-> parseFloat(match.lat), lng |-> parseFloat(match.lon)]
                 ELSE Null

\* the variables of the pipeline
pipelineVars ==
    <<scenario, rows, run, pc, i, strat, attempt, backoff, r, doneKeys, outFile, missFile,
      outBuf, missBuf, outExists, missExists, processed, skipped, errors,
      sinceCall, sinceReq, gap, nreq, queried, appended, missed,
      startLen, abortCause, caught, lastFail, asked, calls,
      outHeader, outHdrDue, missHdrDue, outHeaders, missHeaders, json>>

\* the route GET /location/coordinates: 200 with the coordinates, or 404
GetCoordinates ==
    \E municipality \in RequestMunicipalities, neighborhood \in RequestNeighborhoods,
       zipCode \in RequestZipCodes :
        LET coordinates == searchLocationCoordinates(csvData, municipality, neighborhood, zipCode)
        IN  /\ request' = [municipality |-> municipality, neighborhood |-> neighborhood,
                           zipCode |-> zipCode]
            /\ response' = IF coordinates # Null
                           THEN [status |-> 200, coordinates |-> coordinates]
                           ELSE [status |-> 404]
            /\ UNCHANGED <<csvData, pipelineVars>>

\* the lookup service over any file of records, the pipeline at rest
LookupInit ==
    /\ scenario = "ladder" /\ rows = [k \in 1..NumRows |-> rowCentro]
    /\ PipelineStart
    /\ csvData \in Datasets /\ LookupIdle

LookupNext == GetCoordinates

LookupSpec == LookupInit /\ [][LookupNext]_vars

\* the service is not obliged to answer; every step of the process itself is taken
\* when it can be
FairSpec ==
    /\ Spec
    /\ WF_vars(StartRun) /\ WF_vars(SkipMissing) /\ WF_vars(SkipResumed)
    /\ WF_vars(BeginRow) /\ WF_vars(Send) /\ WF_vars(Wake)
    /\ WF_vars(FlushOut) /\ WF_vars(FlushMiss) /\ WF_vars(EndRun)

(* ---------------- properties ---------------- *)
\* the records this process has put into the full-results stream, with those on disk
outStream == outFile \o outBuf
missStream == missFile \o missBuf

RECURSIVE SumTo(_, _)
SumTo(f, n) == IF n = 0 THEN 0 ELSE f[n] + SumTo(f, n - 1)

\* the record holds the input columns of the row
sameInput(rec, row) == \A c \in 1..Len(InputColumns) : rec[InputColumns[c]] = row[InputColumns[c]]

\* row k is processed by this run: it has a municipality and its key is not completed
isProcessed(k) == rows[k].municipality # "" /\ makeResumeKey(rows[k]) \notin doneKeys

Tiers == {"exact_postcode", "text_locality", "municipality_fallback", "no_result"}
tierPrecision(t) ==
    CASE t = "exact_postcode" -> 3 [] t = "text_locality" -> 2
      [] t = "municipality_fallback" -> 1 [] t = "no_result" -> 0

\* C1: every outbound request starts at least ONE_SECOND_MS after the start of the
\* previous outbound request of the run, whichever row, strategy or retry it belongs to.
C1_RequestSpacing == gap >= ONE_SECOND_MS

\* C2: every record written for a row with a municipality has a confidence among the
\* four tiers and the precision paired with that tier (3, 2, 1, 0).
C2_TierAndPrecision ==
    \A k \in 1..Len(outStream) :
        outStream[k].municipality # "" =>
            /\ outStream[k].confidence \in Tiers
            /\ outStream[k].precision = tierPrecision(outStream[k].confidence)

\* C3: within one run, every row the loop has passed has exactly one record in the
\* full-results stream if it was processed and none if it was skipped, and the stream
\* grew by exactly these records.
C3_OneRecordPerProcessedRow ==
    pc \in {"row", "ready", "inflight", "backoff", "done"} =>
        /\ \A k \in 1..NumRows :
              appended[k] = IF k < i /\ isProcessed(k) THEN 1 ELSE 0
        /\ Len(outStream) = startLen + SumTo(appended, NumRows)

\* C3 witness: a run over two processed rows, one geocoded and one that threw, is over
C3_Witness ==
    /\ pc = "done" /\ processed = 1 /\ errors = 1
    /\ appended = [k \in 1..NumRows |-> 1]

\* row k has a record with both coordinates in the output file as the run found it
hadCoords(k) ==
    \E j \in 1..startLen : hasCoords(outFile[j]) /\ sameInput(outFile[j], rows[k])

\* C4: a run issues no request and appends no record, to either stream, for a row
\* whose record in the output file it started from has both lat and lon.
C4_NoRequeryOfCompletedRows ==
    \A k \in 1..NumRows :
        hadCoords(k) => (k \notin queried /\ appended[k] = 0 /\ missed[k] = 0)

\* C5: the record of every row completed before a kill is on disk.
C5_CompletedRowsSurviveKill ==
    pc = "killed" => Len(outFile) = startLen + SumTo(appended, NumRows)

\* C6: a query whose attempts are all answered with an error status is retried while
\* attempt <= MAX_RETRIES (six requests in all); the seventh is never sent: the
\* transport returns ok=false with no data, and the ladder goes to the next strategy
\* or, after the last one, writes the row as no_result; no error is counted.
C6_RetryCapThenAdvance ==
    [][(RecvThrottled \/ RecvError) =>
        /\ nreq <= MAX_RETRIES + 1
        /\ IF attempt <= MAX_RETRIES
           THEN pc' = "backoff" /\ strat' = strat /\ i' = i /\ nreq = attempt
           ELSE /\ nreq = MAX_RETRIES + 1
                /\ errors' = errors
                /\ IF strat < NumStrategies
                   THEN /\ pc' = "ready" /\ strat' = strat + 1 /\ attempt' = 1 /\ i' = i
                        /\ ~r'.ok /\ r'.data = 0
                   ELSE /\ pc' = "row" /\ i' = i + 1 /\ processed' = processed + 1
                        /\ outBuf'[Len(outBuf')].confidence = "no_result"
      ]_vars

\* C6 witness: the query of strategy 1 was given up after six requests and the ladder
\* stands at strategy 2
C6_Witness == pc = "ready" /\ strat = 2 /\ ~r.ok /\ nreq = MAX_RETRIES + 1

\* C7: an outbound call that is in flight ends, whether or not the service answers.
C7_CallEnds == (pc = "inflight") ~> (pc # "inflight")

\* the record the catch block has just written
lastWritten == outBuf[Len(outBuf)]

\* C8 (as the code has it): when processing a row throws, the row is written once with
\* confidence no_result, precision 0, empty lat/lon and missReason "error_" followed by
\* the exception message ("error_unknown" for an exception without message), the same
\* record goes to the misses stream, and the loop goes on with the next row.
C8_ThrowWritesNoResult ==
    [][RecvThrow =>
        /\ Len(outBuf') = Len(outBuf) + 1 /\ Len(missBuf') = Len(missBuf) + 1
        /\ sameInput(lastWritten', rows[i])
        /\ lastWritten'.confidence = "no_result" /\ lastWritten'.precision = 0
        /\ lastWritten'.lat = "" /\ lastWritten'.lon = ""
        /\ lastWritten'.missReason = "error_" \o (IF caught' = "" THEN "unknown" ELSE caught')
        /\ missBuf'[Len(missBuf')] = lastWritten'
        /\ pc' = "row" /\ i' = i + 1
      ]_vars

\* C8 witness: the first row threw and the run went on to geocode the second
C8_Witness ==
    /\ pc = "done" /\ Len(outFile) = 2 /\ startLen = 0
    /\ outFile[1].missReason = "error_fetch failed"
    /\ outFile[2].confidence = "exact_postcode"

\* C8 as claimed: missReason is the exception message itself
C8_MissReasonIsMessage ==
    [][RecvThrow => lastWritten'.missReason = caught']_vars

C10_CpStrategiesAreExact ==
    \A k \in 1..Len(outStream) :
        (\E s \in 1..5 : outStream[k].geocodeSource = StrategySource[s]) =>
            (outStream[k].confidence = "exact_postcode" /\ outStream[k].precision = 3)

\* the retry sleep in progress follows a 429/403 (or another status) without Retry-After
sleepsUnhinted(throttled) ==
    pc = "backoff" /\ lastFail.throttled = throttled /\ lastFail.retryAfter = 0

\* C11: on a 429 or 403 response carrying Retry-After: n, n a positive number of
\* seconds, the sleep before the retry is exactly n * 1000 ms: no jitter is added and
\* no cap is applied.
C11_RetryAfterSleep ==
    (pc = "backoff" /\ lastFail.throttled /\ lastFail.retryAfter > 0) =>
        backoff = lastFail.retryAfter * 1000

\* C11 witness: the transport sleeps 60 s, beyond the cap of the exponential delay
C11_Witness ==
    /\ pc = "backoff" /\ lastFail.throttled
    /\ lastFail.retryAfter = 60 /\ backoff = 60000

\* C12 (as the code has it): on a 429 or 403 response without Retry-After the sleep
\* before the retry, for every attempt the transport reaches (1 to 5), lies within
\* [b, b + 500] ms for b = min(30000, 2^attempt * 1000): the cap is on the exponential
\* part, and the sleep with its jitter never exceeds 30500 ms.
C12_SleepWithinCappedWindow ==
    sleepsUnhinted(TRUE) =>
        LET b == Min(30000, Pow2(attempt) * 1000)
        IN  /\ attempt \in 1..MAX_RETRIES
            /\ backoff >= b /\ backoff <= b + 500
            /\ backoff <= 30500

\* C12 witness: the fifth attempt was throttled and the sleep is above 30 s
C12_Witness == sleepsUnhinted(TRUE) /\ attempt = MAX_RETRIES /\ backoff = 30499

\* C12 as claimed: the sleep lies within [2^attempt * 1000, 2^attempt * 1000 + 500] ms
\* and never exceeds 30000 ms
C12_SleepWithinPowerWindow ==
    sleepsUnhinted(TRUE) =>
        /\ backoff >= Pow2(attempt) * 1000 /\ backoff <= Pow2(attempt) * 1000 + 500
        /\ backoff <= 30000

\* the part of the recorded sleep that is not jitter
baseDelay(fail) == fail.sleep - fail.jitter

\* C13: without Retry-After the sleep after a 429/403 is min(30000, 2^attempt * 1000) ms
\* plus a jitter in [0, 500) ms, and after any other error status
\* min(20000, 2^attempt * 500) ms plus a jitter in [0, 300) ms, where attempt is the
\* number of failed attempts of the query so far, counted from 1; from one retry of a
\* query to the next the base delay never decreases.
C13_BackoffFormula ==
    /\ [](sleepsUnhinted(TRUE) =>
            /\ attempt = nreq /\ attempt >= 1
            /\ lastFail.jitter \in 0..499
            /\ backoff = Min(30000, Pow2(attempt) * 1000) + lastFail.jitter)
    /\ [](sleepsUnhinted(FALSE) =>
            /\ attempt = nreq /\ attempt >= 1
            /\ lastFail.jitter \in 0..299
            /\ backoff = Min(20000, Pow2(attempt) * 500) + lastFail.jitter)
    /\ [][(/\ pc = "inflight" /\ pc' = "backoff"
           /\ lastFail.sleep > 0 /\ lastFail.retryAfter = 0 /\ lastFail'.retryAfter = 0)
          => baseDelay(lastFail') >= baseDelay(lastFail)]_vars

\* C13 witness: the fifth attempt failed with another error status, after four
\* failed attempts
C13_Witness == sleepsUnhinted(FALSE) /\ attempt = MAX_RETRIES /\ backoff = 16299

firstStrategies(n) == [k \in 1..n |-> k]

\* the step ends the query of the last strategy with nothing accepted: an answer
\* without acceptable candidate, or an error status after the last retry
ladderExhausts ==
    /\ pc = "inflight" /\ strat = NumStrategies
    /\ asked[i] = firstStrategies(NumStrategies)
    /\ \/ json'.read /\ acceptCandidate(strat, rows[i], json'.data) = None
       \/ (RecvThrottled \/ RecvError) /\ attempt > MAX_RETRIES

\* C15: when the eighth strategy, after the seven before it, yields no accepted
\* candidate, the row is written with confidence no_result, precision 0 and empty
\* lat and lon, and the same record is written to the misses stream.
C15_ExhaustedLadderIsNoResult ==
    [][ladderExhausts =>
        /\ Len(outBuf') = Len(outBuf) + 1 /\ Len(missBuf') = Len(missBuf) + 1
        /\ sameInput(lastWritten', rows[i])
        /\ lastWritten'.confidence = "no_result" /\ lastWritten'.precision = 0
        /\ lastWritten'.lat = "" /\ lastWritten'.lon = ""
        /\ missBuf'[Len(missBuf')] = lastWritten'
      ]_vars

\* C15 witness: the first row went through all eight strategies and its no_result
\* record is in both files
C15_Witness ==
    /\ pc = "done" /\ asked[1] = firstStrategies(NumStrategies)
    /\ Len(outFile) >= 1 /\ Len(missFile) >= 1
    /\ outFile[1].geocodeNote = "no_result" /\ outFile[1].confidence = "no_result"
    /\ missFile[1] = outFile[1]

\* the step ends the processing of a row (with a record, whichever way)
rowWritten == pc = "inflight" /\ pc' = "row"

C17_MissesAreBelowPrecision3 ==
    (run = 1 /\ pc # "killed") =>
        \A j \in (startLen + 1)..Len(outStream) :
            (outStream[j].precision < 3) <=>
                (\E m \in 1..Len(missStream) : missStream[m] = outStream[j])

\* C18: the strategies queried for a row are the first ones of the ladder, in order;
\* a strategy that accepts a candidate ends the row with a record whose geocodeSource
\* names it, a strategy that accepts none is followed by the next one, retries stay
\* within their strategy, and nothing is queried for a row once it is written.
C18_LadderOrder ==
    /\ [](\A k \in 1..NumRows :
            /\ Len(asked[k]) <= NumStrategies
            /\ asked[k] = firstStrategies(Len(asked[k]))
            /\ (pc \in {"ready", "inflight", "backoff"} /\ k = i) =>
                   Len(asked[k]) = (IF pc = "ready" /\ attempt = 1 THEN strat - 1 ELSE strat))
    /\ [][json'.read =>
                IF acceptCandidate(strat, rows[i], json'.data) # None
                THEN /\ pc' = "row" /\ i' = i + 1
                     /\ lastWritten'.geocodeSource = StrategySource[strat]
                     /\ \A s \in 1..NumStrategies :
                            lastWritten'.geocodeSource = StrategySource[s] =>
                                asked[i] = firstStrategies(s)
                ELSE strat < NumStrategies =>
                        (pc' = "ready" /\ i' = i /\ strat' = strat + 1 /\ attempt' = 1)
          ]_vars
    /\ [][((RecvThrottled \/ RecvError) /\ attempt <= MAX_RETRIES) =>
            (strat' = strat /\ i' = i /\ asked' = asked)]_vars
    /\ [][(Running /\ pc' \in {"row", "ready", "inflight", "backoff", "done"}) =>
            /\ \A k \in 1..NumRows : (k < i => asked'[k] = asked[k])
            /\ (i' = i /\ strat' # strat) => (pc = "inflight" /\ strat' = strat + 1)
          ]_vars

\* C18 witness: the first row was accepted by the sixth strategy after the five
\* before it, and the run went on
C18_Witness ==
    /\ pc = "done" /\ asked[1] = firstStrategies(6)
    /\ Len(outFile) >= 1 /\ outFile[1].geocodeSource = "nominatim_freetext"

\* C19: once the pipeline has run to completion, every input row with a municipality
\* has a record of its own in the full-results file, also when rows share a resume
\* key and when it took more than one run.
C19_EveryRowHasItsRecord ==
    pc = "done" =>
        \A k \in 1..NumRows :
            rows[k].municipality # "" =>
                Cardinality({j \in 1..Len(outFile) : sameInput(outFile[j], rows[k])})
                    >= Cardinality({m \in 1..NumRows : rows[m] = rows[k]})

C23_LookupIsCaseSensitive ==
    response.status = 200 =>
        \E k \in 1..Len(csvData) :
            /\ csvData[k].municipality = request.municipality
            /\ csvData[k].settlement = request.neighborhood
            /\ csvData[k].postalCode = request.zipCode

C22_OneCallInFlight ==
    /\ [](calls \in {0, 1} /\ (calls = 1 <=> pc = "inflight"))
    /\ [][calls' > calls => (calls = 0 /\ calls' = 1)]_vars

\* C22 witness: a retry of a query is in flight, alone
C22_Witness == pc = "inflight" /\ calls = 1 /\ attempt > 1 /\ nreq > 1

\* the positions of the candidates of data whose type is postcode or whose
\* address.postcode is the postal code cp
postcodeHits(cp, data) ==
    {k \in 1..Len(data) : data[k].type = "postcode" \/ data[k].postcode = cp}

\* C24: a postal-code strategy (1 to 5) takes the first candidate of the response
\* whose type is postcode or whose address.postcode equals the postal code of the
\* row; it yields nothing, and the next strategy follows, exactly when the response
\* has no such candidate or is not ok.
C24_FirstPostcodeCandidate ==
    /\ [][(json'.read /\ strat <= 5) =>
            LET hits == postcodeHits(rows[i].postalCode, json'.data)
            IN  IF hits = {}
                THEN pc' = "ready" /\ i' = i /\ strat' = strat + 1 /\ outBuf' = outBuf
                ELSE /\ pc' = "row" /\ Len(outBuf') = Len(outBuf) + 1
                     /\ \E k \in hits :
                          /\ \A h \in hits : k <= h
                          /\ lastWritten'.lat = json'.data[k].lat
                          /\ lastWritten'.lon = json'.data[k].lon
          ]_vars
    /\ [][((RecvThrottled \/ RecvError) /\ attempt > MAX_RETRIES /\ strat <= 5) =>
            (pc' = "ready" /\ i' = i /\ strat' = strat + 1 /\ outBuf' = outBuf)]_vars

\* the positions of the candidates of data that the two filters of the generic mode
\* let through: class not in the blacklist, address.state absent or the target region
survivors(data) ==
    {k \in 1..Len(data) :
        /\ data[k].class \notin {"highway", "railway", "shop", "amenity", "office"}
        /\ (data[k].state = "" \/ toLowerCase(data[k].state) = "jalisco")}

\* C25: a generic strategy (6 to 8) never takes a candidate whose class is
\* blacklisted or whose address.state is present and is not the target region in any
\* letter case; it takes none exactly when no candidate of the response passes the
\* two filters, and then the next strategy follows (after the last one, no_result).
C25_GenericFilters ==
    [][(json'.read /\ strat >= 6) =>
         IF survivors(json'.data) = {}
         THEN IF strat < NumStrategies
              THEN pc' = "ready" /\ i' = i /\ strat' = strat + 1 /\ outBuf' = outBuf
              ELSE pc' = "row" /\ lastWritten'.geocodeNote = "no_result"
         ELSE /\ pc' = "row" /\ Len(outBuf') = Len(outBuf) + 1
              /\ \E k \in survivors(json'.data) :
                    /\ lastWritten'.lat = json'.data[k].lat
                    /\ lastWritten'.lon = json'.data[k].lon
      ]_vars

\* C25 witness: the sixth strategy got a road and a place of another state, took
\* neither, and the seventh strategy is next
C25_Witness ==
    /\ json.read /\ json.data = <<candRoad, candColima>>
    /\ pc = "ready" /\ strat = 7 /\ attempt = 1 /\ outBuf = <<>>

\* the score of the claim: importance * 10, +12 for a whitelisted type, +6 for a
\* whitelisted class, +6 when the municipality-like field contains the municipality
claimedScore(c, municipality) ==
    c.importance10
    + (IF c.type \in WHITELIST_TYPES THEN 12 ELSE 0)
    + (IF c.class \in WHITELIST_CLASSES THEN 6 ELSE 0)
    + (IF municipality # "" /\ includes(toLowerCase(c.muni), toLowerCase(municipality))
       THEN 6 ELSE 0)

\* C26: the candidate a generic strategy takes has the highest score among the
\* candidates that pass the filters, and of those with that score it is the earliest
\* in the response.
C26_HighestScoreEarliest ==
    [][(json'.read /\ strat >= 6 /\ survivors(json'.data) # {}) =>
         \E k \in survivors(json'.data) :
            /\ \A h \in survivors(json'.data) :
                  /\ claimedScore(json'.data[k], rows[i].municipality)
                        >= claimedScore(json'.data[h], rows[i].municipality)
                  /\ claimedScore(json'.data[h], rows[i].municipality)
                        = claimedScore(json'.data[k], rows[i].municipality) => k <= h
            /\ lastWritten'.lat = json'.data[k].lat
            /\ lastWritten'.lon = json'.data[k].lon
      ]_vars

\* C26 witness: of two candidates with the same highest score the sixth strategy
\* took the first, whose score has the municipality bonus
C26_Witness ==
    /\ json.read /\ json.data = <<candAltCode, candHood>>
    /\ claimedScore(candAltCode, "Guadalajara") = claimedScore(candHood, "Guadalajara")
    /\ Len(outBuf) >= 1 /\ lastWritten.geocodeSource = "nominatim_freetext"
    /\ lastWritten.lat = candAltCode.lat

\* C27: a record with geocodeNote no_result is written for a row only when the run
\* has queried all eight strategies for the row, in order, and the last one accepted
\* no candidate either; a record with confidence no_result that has another note is
\* the record the catch block writes for a row whose processing threw.
C27_NoResultOnlyAfterLadder ==
    [][rowWritten =>
        /\ lastWritten'.geocodeNote = "no_result" =>
              /\ strat = NumStrategies /\ asked[i] = firstStrategies(NumStrategies)
              /\ errors' = errors /\ processed' = processed + 1
              /\ json'.read => acceptCandidate(strat, rows[i], json'.data) = None
        /\ (lastWritten'.confidence = "no_result" /\ lastWritten'.geocodeNote # "no_result") =>
              /\ errors' = errors + 1 /\ caught' # NoError
              /\ lastWritten'.geocodeNote = errorNote(caught')
      ]_vars

\* C27 witness: the first row went through the eight strategies to no_result and the
\* processing of the second row threw
C27_Witness ==
    /\ pc = "done" /\ Len(outFile) = 2 /\ errors = 1
    /\ asked[1] = firstStrategies(NumStrategies)
    /\ outFile[1].geocodeNote = "no_result" /\ outFile[1].confidence = "no_result"
    /\ outFile[2].geocodeNote = "error_fetch failed" /\ outFile[2].confidence = "no_result"

\* the process takes each of its steps when it can, and every HTTP call returns or
\* throws: no call stays in flight for ever
LiveSpec ==
    /\ FairSpec
    /\ []<>(pc # "inflight")

\* C28: if every HTTP call returns or throws, a run that has started its row loop
\* and is not killed reaches completion with every row handled (geocoded, skipped or
\* written as an error), whatever the service answered and whichever rows failed.
C28_RunCompletes ==
    Running ~> (\/ pc = "killed"
                \/ /\ pc = "done" /\ i = NumRows + 1
                   /\ processed + skipped + errors = NumRows)

\* C28 witness: the processing of the first row threw, the second row was geocoded
\* and the run completed
C28_Witness ==
    /\ pc = "done" /\ run = 1 /\ errors = 1 /\ processed = 1 /\ Len(outFile) = 2
    /\ outFile[1].geocodeNote = "error_fetch failed"
    /\ outFile[2].confidence = "exact_postcode"

\* sequence a is the beginning of sequence b
isPrefix(a, b) == Len(a) <= Len(b) /\ SubSeq(b, 1, Len(a)) = a

\* C29: no step of a run changes or removes a record that is in the full-results
\* file or in the misses file: each file only grows at its end; and a header line is
\* written to a file only by a run that did not find the file at its start (a file
\* is found by every run after the first, and the full-results file of the "prior"
\* environment by the first run too), so that a file gets one header at most.
C29_RunOnlyAppends ==
    /\ [][isPrefix(outFile, outFile') /\ isPrefix(missFile, missFile')]_vars
    /\ [][/\ outHeaders' # outHeaders =>
                (run = 1 /\ scenario # "prior" /\ outHeaders = 0 /\ outHeaders' = 1)
          /\ missHeaders' # missHeaders =>
                (run = 1 /\ missHeaders = 0 /\ missHeaders' = 1)
         ]_vars

\* C29 witness: a second run, which found both files with the records and the header
\* of the first, has completed and appended a record to each
C29_Witness ==
    /\ run = 2 /\ pc = "done" /\ startLen >= 1
    /\ Len(outFile) > startLen /\ Len(missFile) = 2
    /\ outHeaders = 1 /\ missHeaders = 1

\* C30: in every record a run writes, each of the 15 normalized input columns has the
\* value the source row has for it, whether the row got a candidate, no_result or an
\* exception; the record has these columns and the seven geocoding columns only.
C30_InputColumnsCopied ==
    [][rowWritten =>
        /\ Len(outBuf') = Len(outBuf) + 1
        /\ Len(headerMap) = 15
        /\ \A c \in 1..Len(headerMap) : lastWritten'[headerMap[c]] = rows[i][headerMap[c]]
        /\ DOMAIN lastWritten' =
              {headerMap[c] : c \in 1..Len(headerMap)}
              \cup {"lat", "lon", "geocodeSource", "geocodeNote", "confidence",
                    "missReason", "precision"}
      ]_vars

\* C30 witness: a run wrote a record with a candidate's coordinates for its first row
\* and the record of an exception for its second, each with the columns of its row
C30_Witness ==
    /\ pc = "done" /\ Len(outFile) = 2
    /\ outFile[1].lat # "" /\ outFile[1].confidence = "text_locality"
    /\ outFile[2].geocodeNote = "error_fetch failed"
    /\ outFile[1].settlement = rows[1].settlement /\ outFile[1].zone = "Urbano"
    /\ outFile[2].settlement = rows[2].settlement /\ outFile[2].postalCodeAlt = "44101"

\* the resume key of a record or row: its key fields in upper case, joined by '|'
keyOf(rec) ==
    toUpperCase(rec.postalCode) \o "|" \o toUpperCase(rec.settlement) \o "|"
        \o toUpperCase(rec.municipality) \o "|" \o toUpperCase(rec.settlementIdCpcons)

\* the run has scanned the output file and has not been killed
Scanned == pc \in {"row", "ready", "inflight", "backoff", "done"}

\* C31: the completed set of a run holds exactly the resume keys of the records that
\* were in the output file with both lat and lon when the run started; it does not
\* change during the run, so that a record the run writes never makes it skip a later
\* row: rows that share a resume key and are not completed at the start are each
\* written once by the run.
C31_CompletedSetFixed ==
    /\ [](Scanned =>
            doneKeys = {keyOf(outFile[j]) : j \in {m \in 1..startLen : hasCoords(outFile[m])}})
    /\ [][(Scanned /\ Scanned') => doneKeys' = doneKeys]_vars
    /\ [](pc = "done" =>
            \A k \in 1..NumRows :
                (rows[k].municipality # "" /\ keyOf(rows[k]) \notin doneKeys) => appended[k] = 1)

\* the records of row k in the output file the run started from
recordsAtStart(k) == {j \in 1..startLen : sameInput(outFile[j], rows[k])}

\* the record a completed run wrote for row k: the records of the run follow those
\* the file had at the start, in the order of the rows
recordOfRun(k) == outFile[startLen + SumTo(appended, k - 1) + 1]

\* C32: a record with confidence no_result has empty lat and lon; a row with a
\* municipality whose records in the output file at the start of a run are all
\* no_result records is queried again by the run, which writes one more record for
\* it (and one to the misses stream exactly when that record is a miss again), so that
\* the file holds more than one record of the row.
C32_NoResultRowsAreRetried ==
    /\ \A j \in 1..Len(outStream) :
          outStream[j].confidence = "no_result" =>
              (outStream[j].lat = "" /\ outStream[j].lon = "")
    /\ pc = "done" =>
          \A k \in 1..NumRows :
              (/\ rows[k].municipality # "" /\ recordsAtStart(k) # {}
               /\ \A j \in recordsAtStart(k) : outFile[j].confidence = "no_result")
              => /\ k \in queried /\ appended[k] = 1 /\ missed[k] <= 1
                 /\ Cardinality({j \in 1..Len(outFile) : sameInput(outFile[j], rows[k])}) >= 2
                 /\ sameInput(recordOfRun(k), rows[k])
                 /\ missed[k] = 1 <=>
                       recordOfRun(k).confidence \in {"municipality_fallback", "no_result"}

\* C33: a record written with both lat and lon has the resume key of its source row,
\* and a run that finds such a record of a row in the output file has the key of that
\* row in its completed set, so that it skips the row.
C33_WrittenKeyIsRowKey ==
    /\ [][(rowWritten /\ hasCoords(lastWritten')) =>
             keyOf(lastWritten') = makeResumeKey(rows[i])]_vars
    /\ [](Scanned =>
             \A k \in 1..NumRows :
                 hadCoords(k) => (makeResumeKey(rows[k]) \in doneKeys /\ appended[k] = 0))


\* C34: the pipeline spaces rows. The first request of a processed row (strategy 1,
\* attempt 1) starts at least ONE_SECOND_MS after the geocoding of the row
\* processed before it in the run returned or threw; a row that is skipped lets
\* no time pass and leaves the time since lastCallAt as it was.
C34_RowsAreSpaced ==
    /\ [][(pc = "ready" /\ pc' = "inflight" /\ strat = 1 /\ attempt = 1)
            => sinceCall >= ONE_SECOND_MS]_vars
    /\ [][(pc = "inflight" /\ pc' = "row") => sinceCall' = 0]_vars
    /\ [][(pc = "row" /\ pc' = "row" /\ i' = i + 1)
            => (sinceCall' = sinceCall /\ sinceReq' = sinceReq /\ skipped' = skipped + 1)]_vars

\* the second row of a run is about to send its first request, a second after the
\* first row's geocoding ended
C34_Witness ==
    /\ pc = "ready" /\ i = 2 /\ strat = 1 /\ attempt = 1
    /\ processed + errors = 1 /\ sinceCall = ONE_SECOND_MS


\* the row at position i is inside geocodeWithFallback
InLadder == pc \in {"ready", "inflight", "backoff"}

\* C35: a row that is written has issued at least one request and at most
\* NumStrategies * (MAX_RETRIES + 1) = 48: each strategy is asked at most once per
\* row, each request is the first of a newly asked strategy or the next attempt of
\* the strategy being asked, and no strategy issues more than MAX_RETRIES + 1. The
\* retry counter is 1 again whenever the ladder moves to another strategy.
C35_RequestsPerRow ==
    /\ [](InLadder =>
            /\ attempt \in 1..(MAX_RETRIES + 1) /\ nreq <= MAX_RETRIES + 1
            /\ Len(asked[i]) <= NumStrategies
            /\ asked[i] = firstStrategies(Len(asked[i]))
            /\ (Len(asked[i]) - 1) * (MAX_RETRIES + 1) + nreq
                   <= NumStrategies * (MAX_RETRIES + 1)
            /\ NumStrategies * (MAX_RETRIES + 1) = 48)
    /\ [][(pc = "ready" /\ pc' = "inflight") =>
            /\ nreq' = attempt
            /\ IF attempt = 1
               THEN asked'[i] = Append(asked[i], strat)
               ELSE asked' = asked /\ nreq' = nreq + 1]_vars
    /\ [][(InLadder /\ InLadder' /\ strat' # strat) => (attempt' = 1 /\ i' = i)]_vars
    /\ [][(pc = "row" /\ pc' = "ready") => (attempt' = 1 /\ strat' = 1 /\ asked[i] = <<>>)]_vars
    /\ [][(pc = "inflight" /\ pc' = "row") => (nreq >= 1 /\ Len(asked[i]) >= 1)]_vars

\* the sixth request of the eighth strategy of a row is in flight
C35_Witness ==
    /\ pc = "inflight" /\ strat = NumStrategies /\ nreq = MAX_RETRIES + 1
    /\ Len(asked[i]) = NumStrategies


\* C36: at every iteration boundary of the row loop (and at its end) processed +
\* skipped + errors is the number of rows iterated so far, and the records the run
\* has written to the full-results stream number processed + errors.
C36_CountersAddUp ==
    /\ [](pc \in {"row", "done"} =>
            /\ processed + skipped + errors = i - 1
            /\ Len(outStream) - startLen = processed + errors)
    /\ [][(pc \in {"row", "inflight"} /\ pc' = "row" /\ i' = i + 1) =>
            /\ (processed' + skipped' + errors') = (processed + skipped + errors) + 1
            /\ Len(outBuf') - Len(outBuf) = (processed' - processed) + (errors' - errors)
            /\ processed' >= processed /\ skipped' >= skipped /\ errors' >= errors]_vars

\* a run over two rows is at a boundary with one row skipped and one that threw
C36_Witness ==
    /\ pc = "row" /\ i = 3 /\ skipped = 1 /\ errors = 1 /\ processed = 0
    /\ Len(outStream) - startLen = 1


matchesRequest(k) ==
    rowMatches(csvData[k], request.municipality, request.neighborhood, request.zipCode)

====
